---------------------------- MODULE Spec2Model ----------------------------
(***************************************************************************)
(* Model of backend/backend_app.py: a Flask service that keeps blog posts  *)
(* in the module-level list POSTS and serves list/create, delete, update   *)
(* and search requests on it.                                              *)
(*                                                                         *)
(* A Python str is a sequence of one-character strings; a JSON value is a  *)
(* tagged record, so that Python's truthiness, None tests and attribute    *)
(* errors on non-str values can be told apart.                             *)
(***************************************************************************)
EXTENDS Integers, Sequences, FiniteSets, TLC

VARIABLES POSTS,     \* the module-level list of posts
          req,       \* the request being served (NoReq when none is)
          resp,      \* the response the handler returned (NoResp when none)
          hist,      \* history: largest id created, and the round trip under way
          threads    \* per worker thread: position inside a create request

vars == <<POSTS, req, resp, hist, threads>>

---------------------------------------------------------------------------
(* Bounds of the model.                                                    *)

\* largest id a create may hand out (ids grow without bound in the code)
MaxId == 3

\* largest number of posts in a store the read-only specification starts from
MaxQueryPosts == 3

---------------------------------------------------------------------------
(* Python values.                                                          *)

Absent == [t |-> "absent", s |-> <<>>, n |-> 0]
Null == [t |-> "null", s |-> <<>>, n |-> 0]
Str(x) == [t |-> "str", s |-> x, n |-> 0]
Num(i) == [t |-> "num", s |-> <<>>, n |-> i]

\* bool(v) for a JSON value v
Truthy(v) ==
    CASE v.t = "str" -> v.s # <<>>
      [] v.t = "num" -> v.n # 0
      [] OTHER -> FALSE

\* code points of the characters the model uses
Ord ==
    (" " :> 32) @@ ("." :> 46) @@ ("A" :> 65) @@ ("B" :> 66) @@ ("F" :> 70)
    @@ ("I" :> 73) @@ ("R" :> 82) @@ ("S" :> 83) @@ ("T" :> 84)
    @@ ("a" :> 97) @@ ("b" :> 98) @@ ("c" :> 99) @@ ("d" :> 100)
    @@ ("e" :> 101) @@ ("f" :> 102) @@ ("h" :> 104) @@ ("i" :> 105)
    @@ ("l" :> 108) @@ ("n" :> 110) @@ ("o" :> 111) @@ ("p" :> 112)
    @@ ("r" :> 114) @@ ("s" :> 115) @@ ("t" :> 116) @@ ("x" :> 120)

UpperToLower ==
    ("A" :> "a") @@ ("B" :> "b") @@ ("F" :> "f") @@ ("I" :> "i")
    @@ ("R" :> "r") @@ ("S" :> "s") @@ ("T" :> "t")

LowerChar(c) == IF c \in DOMAIN UpperToLower THEN UpperToLower[c] ELSE c

\* str.lower()
Lower(s) == [i \in 1..Len(s) |-> LowerChar(s[i])]

\* a < b on str: lexicographic by code point
RECURSIVE StrLess(_, _)
StrLess(a, b) ==
    IF b = <<>> THEN FALSE
    ELSE IF a = <<>> THEN TRUE
    ELSE IF Ord[Head(a)] < Ord[Head(b)] THEN TRUE
    ELSE IF Ord[Head(a)] > Ord[Head(b)] THEN FALSE
    ELSE StrLess(Tail(a), Tail(b))

\* a in b on str: a occurs in b as a contiguous run
IsSubstring(a, b) ==
    \E i \in 0..(Len(b) - Len(a)) :
        \A j \in 1..Len(a) : b[i + j] = a[j]

\* the two field names as str
FieldName ==
    [title |-> <<"t", "i", "t", "l", "e">>,
     content |-> <<"c", "o", "n", "t", "e", "n", "t">>]

---------------------------------------------------------------------------
(* Posts and the seed store.                                               *)

Post(i, t, c) == [id |-> i, title |-> t, content |-> c]

FirstTitle == <<"F", "i", "r", "s", "t", " ", "p", "o", "s", "t">>
SecondTitle == <<"S", "e", "c", "o", "n", "d", " ", "p", "o", "s", "t">>
FirstContent ==
    <<"T", "h", "i", "s", " ", "i", "s", " ", "t", "h", "e", " ">>
    \o <<"f", "i", "r", "s", "t", " ", "p", "o", "s", "t", ".">>
SecondContent ==
    <<"T", "h", "i", "s", " ", "i", "s", " ", "t", "h", "e", " ">>
    \o <<"s", "e", "c", "o", "n", "d", " ", "p", "o", "s", "t", ".">>

SeedPosts ==
    <<Post(1, Str(FirstTitle), Str(FirstContent)),
      Post(2, Str(SecondTitle), Str(SecondContent))>>

Ids(P) == {P[i].id : i \in 1..Len(P)}

\* max((post["id"] for post in POSTS), default=0)
MaxPostId(P) ==
    IF P = <<>> THEN 0
    ELSE CHOOSE m \in Ids(P) : \A i \in Ids(P) : i <= m

\* index of next((post for post in POSTS if post["id"] == post_id), None);
\* 0 stands for None
FindPost(P, post_id) ==
    IF post_id \in Ids(P)
    THEN CHOOSE i \in 1..Len(P) :
            /\ P[i].id = post_id
            /\ \A j \in 1..(i - 1) : P[j].id # post_id
    ELSE 0

\* list.remove(x): drops the first element equal to x
ListRemove(P, x) ==
    LET k == CHOOSE i \in 1..Len(P) :
                /\ P[i] = x
                /\ \A j \in 1..(i - 1) : P[j] # x
    IN [i \in 1..(Len(P) - 1) |-> IF i < k THEN P[i] ELSE P[i + 1]]

---------------------------------------------------------------------------
(* Requests and responses.                                                 *)

\* what request.get_json() returned
NoBody == [k |-> "none", id |-> Absent, title |-> Absent, content |-> Absent,
           s |-> <<>>, items |-> <<>>, n |-> 0]
ObjBody(i, t, c) == [NoBody EXCEPT !.k = "object", !.id = i, !.title = t,
                                   !.content = c]
ArrBody(xs) == [NoBody EXCEPT !.k = "array", !.items = xs]
StrBody(x) == [NoBody EXCEPT !.k = "string", !.s = x]
NumBody(i) == [NoBody EXCEPT !.k = "number", !.n = i]

\* bool(body): None, {}, [], "" and 0 are false
BodyTruthy(b) ==
    CASE b.k = "object" -> \E f \in {"id", "title", "content"} : b[f] # Absent
      [] b.k = "array" -> b.items # <<>>
      [] b.k = "string" -> b.s # <<>>
      [] b.k = "number" -> b.n # 0
      [] OTHER -> FALSE

\* a query parameter: <<>> when the request has none, <<v>> when it has v
None == <<>>
Some(v) == <<v>>

NoReq == [op |-> "none", id |-> 0, body |-> NoBody, sort |-> None,
          direction |-> None, title |-> None, content |-> None]
NoResp == [status |-> 0, error |-> "", missing |-> <<>>, field |-> "",
           allowed |-> {}, posts |-> <<>>, id |-> 0]

Reply(code) == [NoResp EXCEPT !.status = code]
Failure(code, msg) == [NoResp EXCEPT !.status = code, !.error = msg]

ErrCreateBody == "Request body must be JSON."
ErrMissing == "Missing required fields."
ErrQuery == "Invalid query parameter."
ErrNotFound == "No post with id was found."
ErrUpdateBody == "Request body must be valid JSON."
\* an exception no handler catches: Flask answers 500
ErrUnhandled == "Internal Server Error"

---------------------------------------------------------------------------
(* POST /api/posts                                                         *)

\* faulty variant of FieldCheck: only `field not in new_post` is tested, so
\* an empty or null value passes
FieldCheckPresenceOnly(b, field) ==
    CASE b.k = "object" -> IF b[field] = Absent THEN "missing" ELSE "ok"
      [] b.k = "array" ->
            IF \E i \in 1..Len(b.items) : b.items[i] = Str(FieldName[field])
            THEN "raise" ELSE "missing"
      [] b.k = "string" ->
            IF IsSubstring(FieldName[field], b.s) THEN "raise" ELSE "missing"
      [] OTHER -> "raise"

\* one turn of the comprehension over ("title", "content"):
\*     field not in new_post or not new_post[field]
\* "missing" when it is true, "ok" when false, "raise" when it raises
\* TypeError (`in` on an int; a str index into a list or a str)
FieldCheck(b, field) ==
    CASE b.k = "object" ->
            IF b[field] = Absent \/ ~Truthy(b[field]) THEN "missing" ELSE "ok"
      [] b.k = "array" ->
            IF \E i \in 1..Len(b.items) : b.items[i] = Str(FieldName[field])
            THEN "raise" ELSE "missing"
      [] b.k = "string" ->
            IF IsSubstring(FieldName[field], b.s) THEN "raise" ELSE "missing"
      [] OTHER -> "raise"

MissingFields(b) ==
    SelectSeq(<<"title", "content">>, LAMBDA f : FieldCheck(b, f) = "missing")

\* faulty variant of WithId: new_post.setdefault("id", new_id), which keeps
\* an id the body brought along
WithIdKeepsBodyId(b, new_id) ==
    Post(IF b.id.t = "num" THEN b.id.n ELSE new_id, b.title, b.content)

\* new_post["id"] = new_id on the parsed body (keys of the body other than
\* id, title and content are carried along by the code and are not modelled)
WithId(b, new_id) == Post(new_id, b.title, b.content)

\* the POST branch of get_posts
CreatePost(P, b) ==
    IF ~BodyTruthy(b)
    THEN [store |-> P, resp |-> Failure(400, ErrCreateBody)]
    ELSE IF \E f \in {"title", "content"} : FieldCheck(b, f) = "raise"
    THEN [store |-> P, resp |-> Failure(500, ErrUnhandled)]
    ELSE IF MissingFields(b) # <<>>
    THEN [store |-> P,
          resp |-> [Failure(400, ErrMissing) EXCEPT !.missing = MissingFields(b)]]
    ELSE LET new_id == MaxPostId(P) + 1
             new_post == WithId(b, new_id)
         IN [store |-> Append(P, new_post),
             resp |-> [Reply(201) EXCEPT !.posts = <<new_post>>, !.id = new_id]]

---------------------------------------------------------------------------
(* GET /api/posts                                                          *)

\* faulty variant of SortKey: the key is d[sort], not lower-cased
SortKeyRaw(d, sort) == d[sort].s

\* the sort key: d[sort].lower()
SortKey(d, sort) == Lower(d[sort].s)

\* whether key a must come before key b
Precedes(a, b, reverse) == IF reverse THEN StrLess(b, a) ELSE StrLess(a, b)

\* x placed into the ordered list s behind every element it does not precede
RECURSIVE StableInsert(_, _, _, _)
StableInsert(s, x, sort, reverse) ==
    IF s = <<>> THEN <<x>>
    ELSE IF Precedes(SortKey(x, sort), SortKey(Head(s), sort), reverse)
    THEN <<x>> \o s
    ELSE <<Head(s)>> \o StableInsert(Tail(s), x, sort, reverse)

\* list.sort(key=..., reverse=...): stable, equal keys keep their order
RECURSIVE SortPosts(_, _, _)
SortPosts(P, sort, reverse) ==
    IF P = <<>> THEN <<>>
    ELSE StableInsert(SortPosts(SubSeq(P, 1, Len(P) - 1), sort, reverse),
                      P[Len(P)], sort, reverse)

\* bool(param) for a query parameter
ParamTruthy(p) == p # None /\ p # Some("")

\* faulty variant of ListPosts: sorted_list = POSTS without .copy(), so the
\* sort reorders the store itself
ListPostsInPlace(P, sort, direction) ==
    LET reverse == direction = Some("desc")
    IN IF ParamTruthy(direction) /\ direction \notin {Some("asc"), Some("desc")}
       THEN [store |-> P,
             resp |-> [Failure(400, ErrQuery) EXCEPT !.field = "direction",
                                                      !.allowed = {"asc", "desc"}]]
       ELSE IF ~ParamTruthy(sort)
       THEN [store |-> P, resp |-> [Reply(200) EXCEPT !.posts = P]]
       ELSE IF sort \notin {Some("title"), Some("content")}
       THEN [store |-> P,
             resp |-> [Failure(400, ErrQuery) EXCEPT !.field = "sort",
                                                      !.allowed = {"title", "content"}]]
       ELSE IF \E i \in 1..Len(P) : P[i][sort[1]].t # "str"
       THEN [store |-> P, resp |-> Failure(500, ErrUnhandled)]
       ELSE [store |-> SortPosts(P, sort[1], reverse),
             resp |-> [Reply(200) EXCEPT
                          !.posts = SortPosts(P, sort[1], reverse)]]

\* the GET branch of get_posts; the store is read, never written
ListPosts(P, sort, direction) ==
    LET sorted_list == P
        reverse == IF direction \in {Some("asc"), Some("desc")}
                   THEN direction = Some("desc") ELSE FALSE
    IN IF ParamTruthy(direction) /\ direction \notin {Some("asc"), Some("desc")}
       THEN [store |-> P,
             resp |-> [Failure(400, ErrQuery) EXCEPT !.field = "direction",
                                                      !.allowed = {"asc", "desc"}]]
       ELSE IF ~ParamTruthy(sort)
       THEN [store |-> P, resp |-> [Reply(200) EXCEPT !.posts = sorted_list]]
       ELSE IF sort \notin {Some("title"), Some("content")}
       THEN [store |-> P,
             resp |-> [Failure(400, ErrQuery) EXCEPT !.field = "sort",
                                                      !.allowed = {"title", "content"}]]
       ELSE IF \E i \in 1..Len(P) : P[i][sort[1]].t # "str"
       THEN [store |-> P, resp |-> Failure(500, ErrUnhandled)]
       ELSE [store |-> P,
             resp |-> [Reply(200) EXCEPT
                          !.posts = SortPosts(sorted_list, sort[1], reverse)]]

---------------------------------------------------------------------------
(* DELETE /api/posts/<int:post_id>                                         *)

DeletePost(P, post_id) ==
    LET k == FindPost(P, post_id)
    IN IF k = 0
       THEN [store |-> P,
             resp |-> [Failure(404, ErrNotFound) EXCEPT !.id = post_id]]
       ELSE [store |-> ListRemove(P, P[k]),
             resp |-> [Reply(200) EXCEPT !.id = post_id]]

---------------------------------------------------------------------------
(* PUT /api/posts/<int:post_id>                                            *)

\* faulty variant of ApplyField: the assignment guarded by `if title:`, so
\* an empty string is not applied
ApplyFieldIfTruthy(post, b, field) ==
    IF b[field] # Absent /\ Truthy(b[field])
    THEN [post EXCEPT ![field] = b[field]]
    ELSE post

\* updates.get(field), then the assignment guarded by `is not None`
ApplyField(post, b, field) ==
    IF b[field] # Absent /\ b[field] # Null
    THEN [post EXCEPT ![field] = b[field]]
    ELSE post

\* faulty variant of UpdatePost: the body is checked before the post is
\* looked up
UpdatePostBodyFirst(P, post_id, b) ==
    LET k == FindPost(P, post_id)
    IN IF ~BodyTruthy(b)
       THEN [store |-> P, resp |-> Failure(400, ErrUpdateBody)]
       ELSE IF k = 0
       THEN [store |-> P,
             resp |-> [Failure(404, ErrNotFound) EXCEPT !.id = post_id]]
       ELSE IF b.k # "object"
       THEN [store |-> P, resp |-> Failure(500, ErrUnhandled)]
       ELSE LET updated == ApplyField(ApplyField(P[k], b, "title"), b, "content")
            IN [store |-> [P EXCEPT ![k] = updated],
                resp |-> [Reply(200) EXCEPT !.posts = <<updated>>,
                                            !.id = post_id]]

UpdatePost(P, post_id, b) ==
    LET k == FindPost(P, post_id)
    IN IF k = 0
       THEN [store |-> P,
             resp |-> [Failure(404, ErrNotFound) EXCEPT !.id = post_id]]
       ELSE IF ~BodyTruthy(b)
       THEN [store |-> P, resp |-> Failure(400, ErrUpdateBody)]
       ELSE IF b.k # "object"
       THEN [store |-> P, resp |-> Failure(500, ErrUnhandled)]
       ELSE LET updated == ApplyField(ApplyField(P[k], b, "title"), b, "content")
            IN [store |-> [P EXCEPT ![k] = updated],
                resp |-> [Reply(200) EXCEPT !.posts = <<updated>>,
                                            !.id = post_id]]

---------------------------------------------------------------------------
(* GET /api/posts/search                                                   *)

\* request.args.get(name, '').lower()
SearchTerm(p) == IF p = None THEN <<>> ELSE Lower(p[1])

\* (term and term in post[field].lower()) for one post: "yes", "no", or
\* "raise" when .lower() is looked up on a value that is no str
TermCheck(term, v) ==
    IF term = <<>> THEN "no"
    ELSE IF v.t # "str" THEN "raise"
    ELSE IF IsSubstring(term, Lower(v.s)) THEN "yes" ELSE "no"

\* the condition of the comprehension, `or` short-circuiting
PostCheck(title, content, post) ==
    IF TermCheck(title, post.title) # "no"
    THEN TermCheck(title, post.title)
    ELSE TermCheck(content, post.content)

Search(P, title_param, content_param) ==
    LET title == SearchTerm(title_param)
        content == SearchTerm(content_param)
    IN IF \E i \in 1..Len(P) : PostCheck(title, content, P[i]) = "raise"
       THEN [store |-> P, resp |-> Failure(500, ErrUnhandled)]
       ELSE [store |-> P,
             resp |-> [Reply(200) EXCEPT
                          !.posts = SelectSeq(P, LAMBDA post :
                                      PostCheck(title, content, post) = "yes")]]

---------------------------------------------------------------------------
(* The requests the model sends.                                           *)

\* values of "title" and "content" in a JSON-object body
FieldVals == {Absent, Null, Str(<<>>), Str(<<"a">>)}

\* a body may carry an "id" of its own
ObjectBodies ==
    {ObjBody(Absent, t, c) : t \in FieldVals, c \in FieldVals}
    \cup {ObjBody(Num(1), Absent, Absent),
          ObjBody(Num(1), Str(<<"a">>), Str(<<"a">>))}

\* bodies only the create requests send: a number that is false
FalsyNumberBodies ==
    {ObjBody(Absent, Num(0), Str(<<"a">>)), ObjBody(Absent, Str(<<"a">>), Num(0)),
     ObjBody(Absent, Num(0), Num(0))}

OtherBodies ==
    {NoBody,
     ArrBody(<<>>), ArrBody(<<Str(<<"x">>)>>),
     ArrBody(<<Str(FieldName.title), Str(FieldName.content)>>),
     StrBody(<<>>), StrBody(<<"x">>), StrBody(FieldName.title),
     NumBody(0), NumBody(5)}

Bodies == ObjectBodies \cup OtherBodies

\* <int:post_id> of the two routes that take one
PostIds == 1..(MaxId + 1)

SortParams == {None, Some(""), Some("title"), Some("content"), Some("foo")}
DirectionParams == {None, Some(""), Some("asc"), Some("desc"), Some("up")}
SearchParams ==
    {None, Some(<<>>), Some(<<"A">>), Some(<<"b">>),
     Some(<<"F", "I", "R", "S", "T">>)}

---------------------------------------------------------------------------
(* History of a run: the largest id a create request has returned so far   *)
(* (0 before the first), and the progress of a create / list / delete /    *)
(* list round trip.                                                        *)

NoTrip == [phase |-> "none", base |-> <<>>, id |-> 0,
           listed |-> FALSE, relisted |-> FALSE]

HistInit == [last |-> 0, trip |-> NoTrip]

HistCreate(h, P, r) ==
    IF r.resp.status = 201
    THEN [last |-> IF r.resp.id > h.last THEN r.resp.id ELSE h.last,
          trip |-> [NoTrip EXCEPT !.phase = "created", !.base = P,
                                  !.id = r.resp.id]]
    ELSE [h EXCEPT !.trip = NoTrip]

HistList(h) ==
    CASE h.trip.phase = "created" -> [h EXCEPT !.trip.listed = TRUE]
      [] h.trip.phase = "deleted" -> [h EXCEPT !.trip.relisted = TRUE]
      [] OTHER -> h

HistDelete(h, post_id, r) ==
    IF h.trip.phase = "created" /\ post_id = h.trip.id /\ r.resp.status = 200
    THEN [h EXCEPT !.trip.phase = "deleted"]
    ELSE [h EXCEPT !.trip = NoTrip]

HistOther(h) == [h EXCEPT !.trip = NoTrip]

---------------------------------------------------------------------------
(* Requests served one at a time: a handler runs from start to end on the  *)
(* store, then its response is sent.                                       *)

NoThreads == [t \in {1, 2} |-> [pc |-> "idle", new_post |-> Post(0, Absent, Absent)]]

Idle == req = NoReq /\ resp = NoResp /\ threads = NoThreads

Create ==
    \E b \in Bodies \cup FalsyNumberBodies :
        LET r == CreatePost(POSTS, b)
        IN /\ Idle
           /\ MaxPostId(r.store) <= MaxId
           /\ POSTS' = r.store
           /\ req' = [NoReq EXCEPT !.op = "create", !.body = b]
           /\ resp' = r.resp
           /\ hist' = HistCreate(hist, POSTS, r)
           /\ UNCHANGED threads

List ==
    \E sort \in SortParams, direction \in DirectionParams :
        LET r == ListPosts(POSTS, sort, direction)
        IN /\ Idle
           /\ POSTS' = r.store
           /\ req' = [NoReq EXCEPT !.op = "list", !.sort = sort,
                                   !.direction = direction]
           /\ resp' = r.resp
           /\ hist' = HistList(hist)
           /\ UNCHANGED threads

Delete ==
    \E post_id \in PostIds :
        LET r == DeletePost(POSTS, post_id)
        IN /\ Idle
           /\ POSTS' = r.store
           /\ req' = [NoReq EXCEPT !.op = "delete", !.id = post_id]
           /\ resp' = r.resp
           /\ hist' = HistDelete(hist, post_id, r)
           /\ UNCHANGED threads

Update ==
    \E post_id \in PostIds, b \in Bodies :
        LET r == UpdatePost(POSTS, post_id, b)
        IN /\ Idle
           /\ POSTS' = r.store
           /\ req' = [NoReq EXCEPT !.op = "update", !.id = post_id, !.body = b]
           /\ resp' = r.resp
           /\ hist' = HistOther(hist)
           /\ UNCHANGED threads

SearchPosts ==
    \E title \in SearchParams, content \in SearchParams :
        LET r == Search(POSTS, title, content)
        IN /\ Idle
           /\ POSTS' = r.store
           /\ req' = [NoReq EXCEPT !.op = "search", !.title = title,
                                   !.content = content]
           /\ resp' = r.resp
           /\ hist' = HistOther(hist)
           /\ UNCHANGED threads

\* the response goes out and the request context is torn down
Return ==
    /\ req # NoReq
    /\ req' = NoReq
    /\ resp' = NoResp
    /\ UNCHANGED <<POSTS, hist, threads>>

Init ==
    /\ POSTS = SeedPosts
    /\ req = NoReq
    /\ resp = NoResp
    /\ hist = HistInit
    /\ threads = NoThreads

Next == Create \/ List \/ Delete \/ Update \/ SearchPosts \/ Return

Spec == Init /\ [][Next]_vars

---------------------------------------------------------------------------
(* Read requests on stores of many shapes: the store is built by the       *)
(* create and update handlers themselves, then only read.                  *)

\* (title, content) after a create followed by an update of the new post
QueryShapes ==
    {<<Str(<<"a">>), Str(<<"B">>)>>,
     <<Str(<<"A">>), Str(<<"a">>)>>,
     <<Str(<<"B">>), Str(<<"A">>)>>,
     <<Str(<<"a", "b">>), Str(<<"a">>)>>,
     <<Str(<<>>), Str(<<"a", "b">>)>>,
     <<Str(<<"a">>), Str(<<>>)>>,
     <<Num(5), Str(<<"a">>)>>,
     <<Str(<<"B">>), Num(5)>>}

RECURSIVE BuildStore(_)
BuildStore(shapes) ==
    IF shapes = <<>> THEN <<>>
    ELSE LET n == Len(shapes)
             created == CreatePost(BuildStore(SubSeq(shapes, 1, n - 1)),
                                   ObjBody(Absent, Str(<<"x">>), Str(<<"x">>)))
         IN UpdatePost(created.store, created.resp.id,
                       ObjBody(Absent, shapes[n][1], shapes[n][2])).store

QueryStores ==
    {BuildStore(sh) :
        sh \in UNION {[1..n -> QueryShapes] : n \in 0..MaxQueryPosts}}

InitQuery ==
    /\ POSTS \in QueryStores
    /\ req = NoReq
    /\ resp = NoResp
    /\ hist = HistInit
    /\ threads = NoThreads

NextQuery == List \/ SearchPosts \/ Return

SpecQuery == InitQuery /\ [][NextQuery]_vars

---------------------------------------------------------------------------
(* Create requests served by two threads of the threaded development       *)
(* server (app.run): the handler takes no lock, so another thread may run  *)
(* between any two of its statements.                                      *)

Threads == DOMAIN NoThreads

\* bodies that pass the checks of lines 32-45
ValidBodies ==
    {b \in ObjectBodies : CreatePost(<<>>, b).resp.status = 201}

\* lines 29-45: the body is parsed and found valid
CreateBegin(t) ==
    \E b \in ValidBodies :
        /\ req = NoReq
        /\ threads[t].pc = "idle"
        /\ threads' = [threads EXCEPT ![t] = [pc |-> "checked",
                                              new_post |-> WithId(b, 0)]]
        /\ UNCHANGED <<POSTS, req, resp, hist>>

\* lines 48-49: new_id is computed from the list as it is now
CreateAssignId(t) ==
    /\ threads[t].pc = "checked"
    /\ MaxPostId(POSTS) + 1 <= MaxId
    /\ threads' = [threads EXCEPT ![t].pc = "assigned",
                                  ![t].new_post.id = MaxPostId(POSTS) + 1]
    /\ UNCHANGED <<POSTS, req, resp, hist>>

\* lines 52-55: the post is appended and returned
CreateAppend(t) ==
    /\ threads[t].pc = "assigned"
    /\ POSTS' = Append(POSTS, threads[t].new_post)
    /\ threads' = [threads EXCEPT ![t].pc = "idle"]
    /\ UNCHANGED <<req, resp, hist>>

NextConc ==
    \/ \E t \in Threads : CreateBegin(t)
    \/ \E t \in Threads : CreateAssignId(t)
    \/ \E t \in Threads : CreateAppend(t)
    \/ Delete
    \/ Return

SpecConc == Init /\ [][NextConc]_vars

---------------------------------------------------------------------------
(* Properties.                                                             *)

Reverse(q) == [i \in 1..Len(q) |-> q[Len(q) + 1 - i]]

PairwiseDistinctIds(P) ==
    \A i, j \in 1..Len(P) : i # j => P[i].id # P[j].id

\* C1: the ids successive successful creates return are strictly increasing,
\* and an id a create has returned is never returned again, also when the
\* post that held it was deleted in between.
CreatedIdsNeverReused ==
    [][(req'.op = "create" /\ resp'.status = 201)
        => resp'.id > hist.last]_vars

\* C2: in every state reached by requests served one at a time the ids in
\* the store are pairwise distinct; a created post gets the assigned id
\* whatever "id" its body carried, and an update leaves the post's id alone
\* whatever "id" its body carried.
StoreIdsDistinct ==
    /\ PairwiseDistinctIds(POSTS)
    /\ (req.op = "create" /\ resp.status = 201) =>
          /\ POSTS[Len(POSTS)].id = resp.id
          /\ resp.id = MaxPostId(SubSeq(POSTS, 1, Len(POSTS) - 1)) + 1
    /\ (req.op = "update" /\ resp.status = 200) =>
          /\ resp.posts[1].id = req.id
          /\ Cardinality({i \in 1..Len(POSTS) : POSTS[i].id = req.id}) = 1

\* a create whose body carried the id of a post already in the store
CreateWithTakenBodyId ==
    /\ req.op = "create"
    /\ resp.status = 201
    /\ req.body.id = Num(1)
    /\ 1 \in Ids(POSTS)
    /\ resp.id # 1

\* C3: a delete or an update addressed to an id no post has answers 404
\* naming that id and leaves the store as it was, whatever the update's body.
MissingIdIsNotFound ==
    [][(req'.op \in {"delete", "update"} /\ req'.id \notin Ids(POSTS))
        => (resp'.status = 404 /\ resp'.id = req'.id /\ POSTS' = POSTS)]_vars

\* an update with a body that is no JSON, addressed to an id no post has
UpdateMissingIdBadBody ==
    /\ req.op = "update"
    /\ req.id \notin Ids(POSTS)
    /\ ~BodyTruthy(req.body)
    /\ resp.status = 404
    /\ POSTS # <<>>

\* C4: a successful update with a JSON-object body sets title (content) to
\* the body's value when the body has one that is not null, the empty string
\* included, and keeps the old value otherwise; the post's id, its place in
\* the store and every other post stay as they were.
UpdateSetsGivenFields ==
    [][(req'.op = "update" /\ resp'.status = 200 /\ req'.body.k = "object")
        => LET k == CHOOSE i \in 1..Len(POSTS) : POSTS[i].id = req'.id
           IN /\ req'.id \in Ids(POSTS)
              /\ Len(POSTS') = Len(POSTS)
              /\ POSTS'[k].id = POSTS[k].id
              /\ \A f \in {"title", "content"} :
                    POSTS'[k][f] = IF req'.body[f] \notin {Absent, Null}
                                   THEN req'.body[f] ELSE POSTS[k][f]
              /\ \A j \in 1..Len(POSTS) : j # k => POSTS'[j] = POSTS[j]
              /\ resp'.posts = <<POSTS'[k]>>]_vars

\* an update that emptied the title and, its content being null, kept the
\* content
UpdateEmptiedTitle ==
    /\ req.op = "update"
    /\ resp.status = 200
    /\ req.body.title = Str(<<>>)
    /\ req.body.content = Null
    /\ resp.posts[1].title = Str(<<>>)
    /\ resp.posts[1].content = Str(FirstContent)

\* C5: a create with a JSON-object body answers 400 exactly when title or
\* content is absent or false (the empty string is); the missing list names
\* exactly those fields, title first; a body that is itself false answers
\* 400 "must be JSON"; and a create that fails leaves the store, and with it
\* the next id, as they were.
CreateValidation ==
    [][(req'.op = "create")
        => LET b == req'.body
               wanted == SelectSeq(<<"title", "content">>,
                            LAMBDA f : b[f] = Absent \/ ~Truthy(b[f]))
           IN /\ b.k = "object" =>
                    /\ resp'.status = 400 <=> wanted # <<>>
                    /\ resp'.status \in {400, 201}
                    /\ (BodyTruthy(b) /\ wanted # <<>>) =>
                          (resp'.error = ErrMissing /\ resp'.missing = wanted)
              /\ ~BodyTruthy(b) =>
                    (resp'.status = 400 /\ resp'.error = ErrCreateBody)
              /\ resp'.status # 201 =>
                    /\ POSTS' = POSTS
                    /\ hist'.last = hist.last
                    /\ MaxPostId(POSTS') = MaxPostId(POSTS)]_vars

\* a create refused for its empty title alone
CreateEmptyTitleRefused ==
    /\ req.op = "create"
    /\ req.body = ObjBody(Absent, Str(<<>>), Str(<<"a">>))
    /\ resp.status = 400
    /\ resp.missing = <<"title">>

\* C6: an update addressed to an id some post has, with a body that is
\* missing, empty or not a JSON object, answers 400 "must be valid JSON" and
\* leaves the store as it was; it has no other outcome.
UpdateBadBodyIsValidationError ==
    [][(/\ req'.op = "update"
        /\ req'.id \in Ids(POSTS)
        /\ (~BodyTruthy(req'.body) \/ req'.body.k # "object"))
        => (/\ resp'.status = 400
            /\ resp'.error = ErrUpdateBody
            /\ POSTS' = POSTS)]_vars

\* C9: from any store S, a successful create followed, with only list reads
\* in between, by a delete of the id the create returned brings the store
\* back to S; the list reads before and after the delete change nothing.
RoundTripRestoresStore ==
    LET t == hist.trip
    IN /\ t.phase = "created" =>
             /\ Len(POSTS) = Len(t.base) + 1
             /\ SubSeq(POSTS, 1, Len(t.base)) = t.base
             /\ POSTS[Len(POSTS)].id = t.id
       /\ t.phase = "deleted" => POSTS = t.base

\* create, list, delete, list: the second list has just been served
RoundTripDone ==
    /\ hist.trip.phase = "deleted"
    /\ hist.trip.listed
    /\ hist.trip.relisted
    /\ req.op = "list"
    /\ resp.status = 200
    /\ resp.posts = hist.trip.base

\* a list request with a valid sort field and a direction that is accepted
SortedListRequest ==
    /\ req.op = "list"
    /\ req.sort \in {Some("title"), Some("content")}
    /\ req.direction \in {None, Some(""), Some("asc"), Some("desc")}

\* every post's value of field f is a str
AllStr(P, f) == \A i \in 1..Len(P) : P[i][f].t = "str"

\* out holds the posts of P, each once
IsPermutation(out, P) ==
    /\ Len(out) = Len(P)
    /\ \A i \in 1..Len(P) : \E j \in 1..Len(out) : out[j] = P[i]

\* the place of post p in the store
PlaceOf(p) == CHOOSE i \in 1..Len(POSTS) : POSTS[i] = p

SearchReturnsMatches ==
    req.op = "search" =>
        LET term(p) == IF p = None THEN <<>> ELSE Lower(p[1])
            title == term(req.title)
            content == term(req.content)
            matches(post) ==
                \/ title # <<>> /\ post.title.t = "str"
                                /\ IsSubstring(title, Lower(post.title.s))
                \/ content # <<>> /\ post.content.t = "str"
                                  /\ IsSubstring(content, Lower(post.content.s))
        IN /\ resp.status = 200
           /\ resp.posts = SelectSeq(POSTS, matches)

\* C10: when create requests run on two threads, the posts they create get
\* different ids and the ids in the store stay pairwise distinct.
ConcurrentCreatesDistinctIds ==
    /\ PairwiseDistinctIds(POSTS)
    /\ \A t, u \in Threads :
          (t # u /\ threads[t].pc = "assigned" /\ threads[u].pc = "assigned")
              => threads[t].new_post.id # threads[u].new_post.id

===========================================================================
